---------------------------- MODULE Spec2Model ----------------------------
(***************************************************************************)
(* MO32 crane compliance auto-check (mo32_one_button_app.py): the rule     *)
(* evaluation engine (safe_text, parse_date, to_float, yn, days_since,     *)
(* days_left_since, contradiction_notes_check, evidence_prompts,           *)
(* evaluate_row, evaluate) as operators over a batch of inspection         *)
(* records, the operations that supply a batch and evaluate it, and the    *)
(* router that picks the page to show from the navigation radio.  The      *)
(* engine is modelled as its functions are called, on the batches the      *)
(* inspection page builds, whichever page the router shows.                *)
(*                                                                         *)
(* Text is a TLA+ string; a calendar date is its proleptic Gregorian       *)
(* ordinal (datetime.date.toordinal()); a float is an exact decimal        *)
(* fraction num/den, or nan, or +/-inf.                                    *)
(***************************************************************************)
EXTENDS Integers, Sequences, FiniteSets, TLC

VARIABLES TODAY, columns, df, edits, pc, out, page, shown

vars == <<TODAY, columns, df, edits, pc, out, page, shown>>

-----------------------------------------------------------------------------
(* Python str methods used by the engine.                                  *)

LowerAlpha == "abcdefghijklmnopqrstuvwxyz"
UpperAlpha == "ABCDEFGHIJKLMNOPQRSTUVWXYZ"
Digits == "0123456789"

CharAt(s, i) == SubSeq(s, i, i)

\* A comprehension [i \in 1..n |-> e] as the list of its values.
List(xs) == xs \o <<>>

\* 0 when c does not occur in s, else the first position of c.
IndexOf(s, c) ==
    LET at == {i \in 1..Len(s) : CharAt(s, i) = c}
    IN IF at = {} THEN 0 ELSE CHOOSE i \in at : \A j \in at : i <= j

IsSpace(c) == c \in {" ", "\t", "\n", "\r"}

RECURSIVE LStrip(_)
LStrip(s) ==
    IF Len(s) > 0 /\ IsSpace(CharAt(s, 1)) THEN LStrip(SubSeq(s, 2, Len(s))) ELSE s

RECURSIVE RStrip(_)
RStrip(s) ==
    IF Len(s) > 0 /\ IsSpace(CharAt(s, Len(s)))
    THEN RStrip(SubSeq(s, 1, Len(s) - 1)) ELSE s

\* str.strip()
Strip(s) == RStrip(LStrip(s))

Letters == {CharAt(LowerAlpha, i) : i \in 1..26}
Capitals == {CharAt(UpperAlpha, i) : i \in 1..26}
ToUpper == [c \in Letters |-> CharAt(UpperAlpha, IndexOf(LowerAlpha, c))]
ToLower == [c \in Capitals |-> CharAt(LowerAlpha, IndexOf(UpperAlpha, c))]

UpperChar(c) == IF c \in Letters THEN ToUpper[c] ELSE c

LowerChar(c) == IF c \in Capitals THEN ToLower[c] ELSE c

RECURSIVE Upper(_)
\* str.upper()
Upper(s) ==
    IF Len(s) = 0 THEN ""
    ELSE IF Len(s) = 1 THEN UpperChar(s)
    ELSE LET h == Len(s) \div 2
         IN Upper(SubSeq(s, 1, h)) \o Upper(SubSeq(s, h + 1, Len(s)))

RECURSIVE Lower(_)
\* str.lower()
Lower(s) ==
    IF Len(s) = 0 THEN ""
    ELSE IF Len(s) = 1 THEN LowerChar(s)
    ELSE LET h == Len(s) \div 2
         IN Lower(SubSeq(s, 1, h)) \o Lower(SubSeq(s, h + 1, Len(s)))

\* w in s
Contains(s, w) ==
    \E i \in 1..(Len(s) - Len(w) + 1) : SubSeq(s, i, i + Len(w) - 1) = w

\* The first position at or after from where w occurs in s, else 0.
Find(s, w, from) ==
    LET at == {i \in from..(Len(s) - Len(w) + 1) : SubSeq(s, i, i + Len(w) - 1) = w}
    IN IF at = {} THEN 0 ELSE CHOOSE i \in at : \A j \in at : i <= j

RECURSIVE Replace(_, _, _)
\* s.replace(old, new), old non-empty
Replace(s, old, new) ==
    LET i == Find(s, old, 1)
    IN IF i = 0 THEN s
       ELSE SubSeq(s, 1, i - 1) \o new
            \o Replace(SubSeq(s, i + Len(old), Len(s)), old, new)

RECURSIVE Join(_, _)
\* sep.join(xs)
Join(sep, xs) ==
    IF Len(xs) = 0 THEN ""
    ELSE IF Len(xs) = 1 THEN xs[1]
    ELSE xs[1] \o sep \o Join(sep, Tail(xs))

IsDigits(s) == Len(s) > 0 /\ \A i \in 1..Len(s) : IndexOf(Digits, CharAt(s, i)) > 0

RECURSIVE DigitsValue(_)
DigitsValue(s) ==
    IF s = "" THEN 0
    ELSE 10 * DigitsValue(SubSeq(s, 1, Len(s) - 1))
         + (IndexOf(Digits, CharAt(s, Len(s))) - 1)

RECURSIVE NatStr(_)
NatStr(n) ==
    IF n < 10 THEN CharAt(Digits, n + 1)
    ELSE NatStr(n \div 10) \o CharAt(Digits, (n % 10) + 1)

\* str(n) / f"{n}" of an int
IntStr(n) == IF n < 0 THEN "-" \o NatStr(0 - n) ELSE NatStr(n)

-----------------------------------------------------------------------------
(* Cell values of a batch.  pandas.read_csv and the form supply str, int   *)
(* and float cells; a blank CSV cell is the float nan, and row.get of an   *)
(* absent key is None.                                                     *)

Str(s) == [t |-> "str", s |-> s, n |-> 0]
IntCell(n) == [t |-> "int", s |-> "", n |-> n]
NaN == [t |-> "float", s |-> "nan", n |-> 0]
None == [t |-> "none", s |-> "", n |-> 0]

\* str(v)
PyStr(v) ==
    CASE v.t = "str" -> v.s
      [] v.t = "int" -> IntStr(v.n)
      [] v.t = "float" -> "nan"
      [] OTHER -> "None"

\* bool(v): "", None and 0 are falsy; nan is truthy.
Truthy(v) ==
    CASE v.t = "str" -> v.s # ""
      [] v.t = "int" -> v.n # 0
      [] v.t = "float" -> TRUE
      [] OTHER -> FALSE

safe_text(v) ==
    IF v.t = "none" THEN ""
    ELSE IF v.t = "float" THEN ""
    ELSE LET s == PyStr(v)
             t == Strip(s)
         IN IF Len(t) \in {3, 4} /\ Lower(t) \in {"nan", "none"} THEN "" ELSE s

yn(v) == Upper(Strip(PyStr(v))) = "Y"

-----------------------------------------------------------------------------
(* float(): an optional sign, then nan, inf, infinity (any case) or a      *)
(* decimal numeral digits[.digits] or .digits.  Exponent and underscore    *)
(* forms are outside the text the batches of this model hold.              *)

NoFloat == [k |-> "none", neg |-> FALSE, num |-> 0, den |-> 1]

RECURSIVE Pow10(_)
Pow10(n) == IF n = 0 THEN 1 ELSE 10 * Pow10(n - 1)

PyFloat(text) ==
    LET signed == Len(text) > 0 /\ CharAt(text, 1) \in {"+", "-"}
        neg == signed /\ CharAt(text, 1) = "-"
        body == IF signed THEN SubSeq(text, 2, Len(text)) ELSE text
        dot == IndexOf(body, ".")
        ip == IF dot = 0 THEN body ELSE SubSeq(body, 1, dot - 1)
        fp == IF dot = 0 THEN "" ELSE SubSeq(body, dot + 1, Len(body))
    IN IF Lower(body) = "nan"
       THEN [k |-> "nan", neg |-> neg, num |-> 0, den |-> 1]
       ELSE IF Lower(body) \in {"inf", "infinity"}
       THEN [k |-> "inf", neg |-> neg, num |-> 0, den |-> 1]
       ELSE IF /\ ip \o fp # ""
               /\ (ip = "" \/ IsDigits(ip))
               /\ (fp = "" \/ IsDigits(fp))
       THEN [k |-> "num", neg |-> neg,
             num |-> DigitsValue(ip \o fp), den |-> Pow10(Len(fp))]
       ELSE NoFloat

to_float(v) == PyFloat(Strip(PyStr(v)))

\* The signed numerator of a "num" float.
Signed(f) == IF f.neg THEN 0 - f.num ELSE f.num

\* a > b on floats: every comparison with nan is False.
FloatGT(a, b) ==
    CASE a.k = "nan" \/ b.k = "nan" -> FALSE
      [] a.k = "inf" -> IF a.neg THEN FALSE ELSE ~(b.k = "inf" /\ ~b.neg)
      [] b.k = "inf" -> b.neg
      [] OTHER -> Signed(a) * b.den > Signed(b) * a.den

RECURSIVE TrimZeros(_)
TrimZeros(s) ==
    IF Len(s) > 1 /\ CharAt(s, Len(s)) = "0"
    THEN TrimZeros(SubSeq(s, 1, Len(s) - 1)) ELSE s

RECURSIVE PadLeft(_, _)
PadLeft(s, w) == IF Len(s) >= w THEN s ELSE PadLeft("0" \o s, w)

\* f"{x}" of a float (repr), for magnitudes printed without an exponent.
FloatStr(f) ==
    CASE f.k = "nan" -> "nan"
      [] f.k = "inf" -> IF f.neg THEN "-inf" ELSE "inf"
      [] OTHER ->
         LET w == Len(NatStr(f.den)) - 1
             frac == IF w = 0 THEN "0"
                     ELSE TrimZeros(PadLeft(NatStr(f.num % f.den), w))
         IN (IF f.neg THEN "-" ELSE "") \o NatStr(f.num \div f.den) \o "." \o frac


-----------------------------------------------------------------------------
(* datetime.date as its ordinal (0001-01-01 is day 1), strptime over the   *)
(* three DATE_FORMATS, strftime("%d-%m-%Y"), and the spreadsheet serial.   *)

IsLeap(y) == y % 4 = 0 /\ (y % 100 # 0 \/ y % 400 = 0)

DaysBeforeYear(y) ==
    LET p == y - 1 IN p * 365 + (p \div 4) - (p \div 100) + (p \div 400)

DaysInMonth(y, m) ==
    IF m = 2 THEN (IF IsLeap(y) THEN 29 ELSE 28)
    ELSE IF m \in {4, 6, 9, 11} THEN 30 ELSE 31

RECURSIVE DaysBeforeMonth(_, _)
DaysBeforeMonth(y, m) ==
    IF m = 1 THEN 0 ELSE DaysBeforeMonth(y, m - 1) + DaysInMonth(y, m - 1)

\* date(y, m, d).toordinal()
ToOrdinal(y, m, d) == DaysBeforeYear(y) + DaysBeforeMonth(y, m) + d

\* date.fromordinal(n) as [y, m, d]
FromOrdinal(n) ==
    LET y == CHOOSE yy \in (n \div 366)..((n \div 365) + 1) :
                 DaysBeforeYear(yy) < n /\ n <= DaysBeforeYear(yy + 1)
        r == n - DaysBeforeYear(y)
        m == CHOOSE mm \in 1..12 :
                 DaysBeforeMonth(y, mm) < r
                 /\ r <= DaysBeforeMonth(y, mm) + DaysInMonth(y, mm)
    IN [y |-> y, m |-> m, d |-> r - DaysBeforeMonth(y, m)]

\* d.strftime("%d-%m-%Y"), as TODAY_STR is made
strftime_dmY(n) ==
    LET c == FromOrdinal(n)
    IN PadLeft(NatStr(c.d), 2) \o "-" \o PadLeft(NatStr(c.m), 2)
       \o "-" \o PadLeft(NatStr(c.y), 4)

\* A parsed date: a date (its ordinal), None, or pandas.NaT.
DateOf(n) == [k |-> "date", ord |-> n]
NoDate == [k |-> "none", ord |-> 0]
NaT == [k |-> "nat", ord |-> 0]

DATE_FORMATS ==
    << [sep |-> "-", first |-> "d"],     \* "%d-%m-%Y"
       [sep |-> "/", first |-> "d"],     \* "%d/%m/%Y"
       [sep |-> "-", first |-> "Y"] >>   \* "%Y-%m-%d"

\* %d: 3[0-1]|[1-2]\d|0[1-9]|[1-9]| [1-9]
DayField(f) ==
    \/ IsDigits(f) /\ Len(f) <= 2 /\ DigitsValue(f) \in 1..31
    \/ Len(f) = 2 /\ CharAt(f, 1) = " " /\ IsDigits(CharAt(f, 2))
       /\ DigitsValue(CharAt(f, 2)) \in 1..9

\* %m: 1[0-2]|0[1-9]|[1-9]
MonthField(f) == IsDigits(f) /\ Len(f) <= 2 /\ DigitsValue(f) \in 1..12

\* %Y: \d\d\d\d
YearField(f) == IsDigits(f) /\ Len(f) = 4

\* datetime.strptime(s, fmt).date(); NoDate stands for the ValueError.
strptime(s, fmt) ==
    LET i == IndexOf(s, fmt.sep)
        rest == SubSeq(s, i + 1, Len(s))
        j == IndexOf(rest, fmt.sep)
        f1 == SubSeq(s, 1, i - 1)
        f2 == SubSeq(rest, 1, j - 1)
        f3 == SubSeq(rest, j + 1, Len(rest))
        fd == IF fmt.first = "d" THEN f1 ELSE f3
        fy == IF fmt.first = "d" THEN f3 ELSE f1
        y == DigitsValue(fy)
        m == DigitsValue(f2)
        d == DigitsValue(LStrip(fd))
    IN IF /\ i > 0 /\ j > 0
          /\ DayField(fd) /\ MonthField(f2) /\ YearField(fy)
          /\ y >= 1 /\ d <= DaysInMonth(y, m)
       THEN DateOf(ToOrdinal(y, m, d))
       ELSE NoDate

\* Ordinals of 1899-12-30 (the serial origin) and 1970-01-01.
SerialOrigin == ToOrdinal(1899, 12, 30)
UnixEpoch == ToOrdinal(1970, 1, 1)

\* floor(num / den) days of a "num" float
FloorDays(f) ==
    IF f.neg /\ f.num % f.den # 0 THEN 0 - (f.num \div f.den) - 1
    ELSE IF f.neg THEN 0 - (f.num \div f.den)
    ELSE f.num \div f.den

\* Whole days a 64-bit nanosecond Timestamp spans on each side of 1970-01-01
\* (2^63 - 1 ns).
TimestampDays == 106751

\* pd.to_datetime(x, unit="D", origin="1899-12-30").date(): nan gives NaT,
\* whose date() is NaT; a value outside the Timestamp range raises
\* OutOfBoundsDatetime (NoDate here, as the caller catches it).
serial_date(f) ==
    CASE f.k = "nan" -> NaT
      [] f.k = "inf" -> NoDate
      [] OTHER ->
         LET n == SerialOrigin + FloorDays(f)
         IN IF n - UnixEpoch \in (0 - TimestampDays)..TimestampDays
            THEN DateOf(n) ELSE NoDate

\* try: return pd.to_datetime(float(s), unit="D", origin="1899-12-30").date()
\* except Exception: return None
from_serial(f) == IF f.k = "none" THEN NoDate ELSE serial_date(f)

\* The first date in a sequence of strptime outcomes, else the float reading.
first_date(tries, f) ==
    IF \E i \in 1..Len(tries) : tries[i].k = "date"
    THEN tries[CHOOSE i \in 1..Len(tries) :
                   /\ tries[i].k = "date"
                   /\ \A j \in 1..(i - 1) : tries[j].k # "date"]
    ELSE from_serial(f)

\* for fmt in DATE_FORMATS: try: return strptime(s, fmt).date()
\* and then the serial number, for the stripped text s of a truthy value.
parse_text(s) ==
    first_date(List([i \in 1..Len(DATE_FORMATS) |-> strptime(s, DATE_FORMATS[i])]),
               PyFloat(s))

parse_date(v) == IF ~Truthy(v) THEN NoDate ELSE parse_text(Strip(PyStr(v)))

\* (TODAY - d).days
days_since(d, today) == today - d.ord

\* days_left_since that never goes below zero.
days_left_clamped(d, interval, today) ==
    IF (d.ord + interval) - today < 0 THEN 0 ELSE (d.ord + interval) - today

\* (d + timedelta(days=interval) - TODAY).days
days_left_since(d, interval, today) == (d.ord + interval) - today


-----------------------------------------------------------------------------
(* The rule tables.                                                        *)

cCrane == "Crane #"
cVessel == "Vessel Name"
cIMO == "IMO"
cMake == "Crane Make/Model"
cSerial == "Serial Number"
cSWL == "SWL (t)"
cInstall == "Install/Commission Date"
cProof == "Last 5-year Proof Test Date"
cAnnual == "Last Annual Thorough Exam Date"
cExamBy == "Annual Exam By (Competent/Responsible Person)"
cCertNo == "Certificate of Test # (AMSA 365/642/etc)"
cCert == "Certificate Current? (Y/N)"
cRegister == "Register of MHE Onboard? (Y/N)"
cPreUse == "Pre-use Visual Exam OK? (Y/N)"
cRigging == "Rigging Plan/Drawings Onboard? (Y/N)"
cControls == "Controls layout labelled & accessible? (Y/N)"
cLimit == "Limit switches operational? (Y/N)"
cBrakes == "Brakes operational? (Y/N)"
cVisibility == "Operator visibility adequate? (Y/N)"
cShift == "Visibility: Shift (Day/Evening/Night)"
cWeather == "Visibility: Weather conditions"
cWeatherProt == "Weather protection at winch/controls? (Y/N)"
cAccess == "Access/escape to cabin compliant? (Y/N)"
cNotes == "Notes / Defects"
cLGSerial == "Loose Gear: Hook/Block Serial Number"
cLGSWL == "Loose Gear: Hook SWL (t)"
cLGCert == "Loose Gear: Certificate Number"
cLGDate == "Loose Gear: Last Inspection/Proof Date"
cLGNotes == "Loose Gear: Notes"

CHECK_COLUMNS ==
    << cCrane, cVessel, cIMO, cMake, cSerial, cSWL,
       cInstall, cProof, cAnnual,
       cExamBy, cCertNo,
       cCert, cRegister, cPreUse,
       cRigging, cControls,
       cLimit, cBrakes, cVisibility,
       cShift, cWeather,
       cWeatherProt, cAccess, cNotes,
       cLGSerial, cLGSWL, cLGCert,
       cLGDate, cLGNotes >>

RISK_KEYWORDS ==
    << [field |-> cControls,
        words |-> <<"sloppy", "sticky", "not labelled", "label missing",
                    "hard to reach", "unresponsive", "stiff">>],
       [field |-> cBrakes,
        words |-> <<"drifts", "creeps", "won't hold", "wont hold", "weak brake",
                    "fade", "brake fade", "slips">>],
       [field |-> cLimit,
        words |-> <<"overtravel", "limit not working", "no cutout", "failsafe",
                    "upper limit", "lower limit">>],
       [field |-> cVisibility,
        words |-> <<"blind spot", "obstructed", "poor visibility",
                    "camera not working", "wiper", "dirty screen">>],
       [field |-> cWeatherProt,
        words |-> <<"no canopy", "exposed", "water ingress", "leaks",
                    "rain on controls">>],
       [field |-> cAccess,
        words |-> <<"ladder loose", "handrail", "blocked", "trip hazard",
                    "missing step">>],
       [field |-> cRigging,
        words |-> <<"no plan", "drawing missing", "outdated plan",
                    "no rigging plan">>],
       [field |-> cCert,
        words |-> <<"expired", "out of date", "no certificate", "missing cert">>],
       [field |-> cRegister,
        words |-> <<"no register", "not onboard", "out of date", "not updated">>] >>

WEATHER_BAD ==
    <<"rain", "raining", "storm", "storming", "hail", "fog", "mist", "spray",
      "squall", "gust", "windy", "dust", "smoke", "night", "dark", "low light",
      "glare">>

\* The workaround phrases of contradiction_notes_check.
WORKAROUND == <<"ok now", "temporary fix", "workaround", "still usable">>

\* The (field, ref) pairs evaluate_row walks.
MANDATORY ==
    << [field |-> cCert, ref |-> "s.23"],
       [field |-> cRegister, ref |-> "s.25"],
       [field |-> cPreUse, ref |-> "s.22(2)(c)"],
       [field |-> cRigging, ref |-> "Sch.6 Div.2 cl.1"],
       [field |-> cLimit, ref |-> "Sch.3 cl.4(3)"],
       [field |-> cBrakes, ref |-> "Sch.6 Div.3"],
       [field |-> cControls, ref |-> "Sch.6 Div.3"],
       [field |-> cVisibility, ref |-> "Sch.6 vis."],
       [field |-> cWeatherProt, ref |-> "Sch.6 cl.19"],
       [field |-> cAccess, ref |-> "Sch.6 access"] >>

Range(xs) == {xs[i] : i \in DOMAIN xs}

RECURSIVE Flatten(_)
\* The concatenation of a sequence of sequences.
Flatten(xss) == IF Len(xss) = 0 THEN <<>> ELSE Head(xss) \o Flatten(Tail(xss))

\* xs[:n]
Take(xs, n) == SubSeq(xs, 1, IF Len(xs) < n THEN Len(xs) ELSE n)

\* row.get(key, default)
Get(row, key, default) == IF key \in DOMAIN row THEN row[key] ELSE default

\* str(row.get(field, "")).strip().upper()
tick_of(row, field) == Upper(Strip(PyStr(Get(row, field, Str("")))))


-----------------------------------------------------------------------------
(* contradiction_notes_check and evidence_prompts.                         *)

\* The lower-cased blob of notes, loose-gear notes and weather text.
notes_blob(row) ==
    Lower(safe_text(Get(row, cNotes, None)) \o " "
          \o safe_text(Get(row, cLGNotes, None)) \o " "
          \o safe_text(Get(row, cWeather, None)))

\* hits_of without the [:3].
hits_uncapped(words, notes) == SelectSeq(words, LAMBDA w : Contains(notes, w))

\* [w for w in words if w in notes][:3]
hits_of(words, notes) == Take(SelectSeq(words, LAMBDA w : Contains(notes, w)), 3)

\* risk_findings whose workaround entry does not ask for a tick of N.
risk_findings_workaround_any(row, notes, entry) ==
    LET tick == tick_of(row, entry.field)
    IN IF notes = "" \/ tick \notin {"Y", "N"} THEN <<>>
       ELSE (IF tick = "Y" /\ \E w \in Range(entry.words) : Contains(notes, w)
             THEN << entry.field \o ": Y but notes mention "
                     \o Join(", ", hits_of(entry.words, notes)) >>
             ELSE <<>>)
            \o
            (IF \E x \in Range(WORKAROUND) : Contains(notes, x)
             THEN << entry.field \o ": N but notes imply workaround/operation" >>
             ELSE <<>>)

\* One pass of the loop over RISK_KEYWORDS.items().
risk_findings(row, notes, entry) ==
    LET tick == tick_of(row, entry.field)
    IN IF notes = "" \/ tick \notin {"Y", "N"} THEN <<>>
       ELSE (IF tick = "Y" /\ \E w \in Range(entry.words) : Contains(notes, w)
             THEN << entry.field \o ": Y but notes mention "
                     \o Join(", ", hits_of(entry.words, notes)) >>
             ELSE <<>>)
            \o
            (IF tick = "N" /\ \E x \in Range(WORKAROUND) : Contains(notes, x)
             THEN << entry.field \o ": N but notes imply workaround/operation" >>
             ELSE <<>>)

\* visibility_finding that looks at the blob only, not at the shift.
visibility_finding_weather_only(row, notes) ==
    IF /\ tick_of(row, cVisibility) = "Y"
       /\ \E w \in Range(WEATHER_BAD) : Contains(notes, w)
    THEN << "Visibility = Y but conditions indicate low visibility (night/adverse weather)." >>
    ELSE <<>>

visibility_finding(row, notes) ==
    LET vis == tick_of(row, cVisibility)
        shift == Lower(safe_text(Get(row, cShift, None)))
    IN IF vis = "Y" /\ (shift = "night" \/ \E w \in Range(WEATHER_BAD) : Contains(notes, w))
       THEN << "Visibility = Y but conditions indicate low visibility (night/adverse weather)." >>
       ELSE <<>>

contradiction_notes_check(row) ==
    LET notes == notes_blob(row)
    IN Flatten(List([i \in 1..Len(RISK_KEYWORDS) |->
                         risk_findings(row, notes, RISK_KEYWORDS[i])]))
       \o visibility_finding(row, notes)

\* evidence_prompts whose rigging-plan prompt does not look for "rev".
evidence_prompts_no_rev(row) ==
    (IF yn(Get(row, cCert, None)) /\ Strip(safe_text(Get(row, cCertNo, None))) = ""
     THEN << "Certificate marked current but certificate number is blank - add ID/photo." >>
     ELSE <<>>)
    \o
    (IF yn(Get(row, cRegister, None)) /\ Strip(safe_text(Get(row, cExamBy, None))) = ""
     THEN << "Register marked onboard - add last entry details/competent or responsible person." >>
     ELSE <<>>)
    \o
    (IF yn(Get(row, cRigging, None))
        /\ Contains(Lower(safe_text(Get(row, cNotes, None))), "plan")
     THEN << "Rigging plan onboard - add drawing ID/revision/date in notes." >>
     ELSE <<>>)
    \o
    (IF yn(Get(row, cCert, None)) /\ Strip(safe_text(Get(row, cLGCert, None))) = ""
     THEN << "Main certificate current but loose gear cert # blank - add accessory cert reference." >>
     ELSE <<>>)

\* evidence_prompts whose register prompt does not ask for the register tick.
evidence_prompts_unticked(row) ==
    (IF yn(Get(row, cCert, None)) /\ Strip(safe_text(Get(row, cCertNo, None))) = ""
     THEN << "Certificate marked current but certificate number is blank - add ID/photo." >>
     ELSE <<>>)
    \o
    (IF Strip(safe_text(Get(row, cExamBy, None))) = ""
     THEN << "Register marked onboard - add last entry details/competent or responsible person." >>
     ELSE <<>>)
    \o
    (IF yn(Get(row, cRigging, None))
        /\ LET notes == Lower(safe_text(Get(row, cNotes, None)))
           IN Contains(notes, "plan") /\ ~Contains(notes, "rev")
     THEN << "Rigging plan onboard - add drawing ID/revision/date in notes." >>
     ELSE <<>>)
    \o
    (IF yn(Get(row, cCert, None)) /\ Strip(safe_text(Get(row, cLGCert, None))) = ""
     THEN << "Main certificate current but loose gear cert # blank - add accessory cert reference." >>
     ELSE <<>>)

evidence_prompts(row) ==
    (IF yn(Get(row, cCert, None)) /\ Strip(safe_text(Get(row, cCertNo, None))) = ""
     THEN << "Certificate marked current but certificate number is blank - add ID/photo." >>
     ELSE <<>>)
    \o
    (IF yn(Get(row, cRegister, None)) /\ Strip(safe_text(Get(row, cExamBy, None))) = ""
     THEN << "Register marked onboard - add last entry details/competent or responsible person." >>
     ELSE <<>>)
    \o
    (IF yn(Get(row, cRigging, None))
        /\ LET notes == Lower(safe_text(Get(row, cNotes, None)))
           IN Contains(notes, "plan") /\ ~Contains(notes, "rev")
     THEN << "Rigging plan onboard - add drawing ID/revision/date in notes." >>
     ELSE <<>>)
    \o
    (IF yn(Get(row, cCert, None)) /\ Strip(safe_text(Get(row, cLGCert, None))) = ""
     THEN << "Main certificate current but loose gear cert # blank - add accessory cert reference." >>
     ELSE <<>>)

-----------------------------------------------------------------------------
(* evaluate_row.                                                           *)

\* A list shared by the calls instead of a new one: it still holds what the
\* last evaluation put in the first record's issues.
shared_list ==
    IF pc # "input" /\ Len(out.rets) > 0 /\ out.rets[1].exc = ""
    THEN out.rets[1].issues ELSE <<>>

\* issues, attention, due_soon = [], [], []
new_list == <<>>

\* One interval rule: "if not d or days_since(d) > limit: issue, else the
\* due-soon notice when days_left_since(d, interval) <= soon".  A NaT date is
\* truthy and TODAY - NaT raises TypeError.
\* interval_rule with "days_since(d) >= limit".
interval_rule_at_limit(d, today, limit, interval, soon, issue, label) ==
    IF d.k = "nat" THEN [raised |-> TRUE, issues |-> <<>>, due |-> <<>>]
    ELSE IF d.k = "none" \/ days_since(d, today) >= limit
    THEN [raised |-> FALSE, issues |-> <<issue>>, due |-> <<>>]
    ELSE [raised |-> FALSE, issues |-> <<>>,
          due |-> IF days_left_since(d, interval, today) <= soon
                  THEN << label \o " due in "
                          \o IntStr(days_left_since(d, interval, today)) \o " days." >>
                  ELSE <<>>]

\* interval_rule with "left < soon".
interval_rule_before_soon(d, today, limit, interval, soon, issue, label) ==
    IF d.k = "nat" THEN [raised |-> TRUE, issues |-> <<>>, due |-> <<>>]
    ELSE IF d.k = "none" \/ days_since(d, today) > limit
    THEN [raised |-> FALSE, issues |-> <<issue>>, due |-> <<>>]
    ELSE [raised |-> FALSE, issues |-> <<>>,
          due |-> IF days_left_since(d, interval, today) < soon
                  THEN << label \o " due in "
                          \o IntStr(days_left_since(d, interval, today)) \o " days." >>
                  ELSE <<>>]

interval_rule(d, today, limit, interval, soon, issue, label) ==
    IF d.k = "nat" THEN [raised |-> TRUE, issues |-> <<>>, due |-> <<>>]
    ELSE IF d.k = "none" \/ days_since(d, today) > limit
    THEN [raised |-> FALSE, issues |-> <<issue>>, due |-> <<>>]
    ELSE LET left == days_left_since(d, interval, today)
         IN [raised |-> FALSE, issues |-> <<>>,
             due |-> IF left <= soon
                     THEN << label \o " due in " \o IntStr(left) \o " days." >>
                     ELSE <<>>]

proof_rule(row, today) ==
    interval_rule(parse_date(Get(row, cProof, None)), today, 5 * 365, 5 * 365, 90,
                  "Overdue/missing 5-year proof test (MO32 Sch.3 2(2)(a)).",
                  "5-year proof test")

annual_rule(row, today) ==
    interval_rule(parse_date(Get(row, cAnnual, None)), today, 365 + 31, 365, 30,
                  "Overdue/missing annual thorough exam (MO32 Sch.3 2(2)(b), 2(5)).",
                  "Annual thorough exam")

loose_gear_rule(row, today) ==
    interval_rule(parse_date(Get(row, cLGDate, None)), today, 365, 365, 30,
                  "Loose gear last inspection/proof >12 months or missing - not compliant.",
                  "Loose gear inspection")

\* mandatory_check that takes every tick other than Y for N.
mandatory_check_blank_as_n(row, entry) ==
    IF tick_of(row, entry.field) # "Y"
    THEN [issues |-> << Replace(entry.field, " (Y/N)", "") \o ": NOT OK (MO32 "
                        \o entry.ref \o ")." >>,
          attention |-> <<>>]
    ELSE [issues |-> <<>>, attention |-> <<>>]

\* One pass of the loop over the ten (field, ref) pairs.
mandatory_check(row, entry) ==
    LET tick == tick_of(row, entry.field)
    IN IF tick \notin {"Y", "N"}
       THEN [issues |-> <<>>,
             attention |-> << entry.field \o " not answered (tick Y or N)." >>]
       ELSE IF tick # "Y"
       THEN [issues |-> << Replace(entry.field, " (Y/N)", "") \o ": NOT OK (MO32 "
                           \o entry.ref \o ")." >>,
             attention |-> <<>>]
       ELSE [issues |-> <<>>, attention |-> <<>>]

\* What the ten passes append to issues and to attention.
collect(checks) ==
    [issues |-> Flatten(List([i \in 1..Len(checks) |-> checks[i].issues])),
     attention |-> Flatten(List([i \in 1..Len(checks) |-> checks[i].attention]))]

mandatory_loop(row) ==
    collect(List([i \in 1..Len(MANDATORY) |-> mandatory_check(row, MANDATORY[i])]))

\* context_attention that checks the shift only.
context_attention_shift_only(row) ==
    IF Strip(safe_text(Get(row, cShift, None))) = ""
    THEN << "Shift/Lighting not selected (Day/Evening/Night)." >> ELSE <<>>

context_attention(row) ==
    (IF Strip(safe_text(Get(row, cShift, None))) = ""
     THEN << "Shift/Lighting not selected (Day/Evening/Night)." >> ELSE <<>>)
    \o
    (IF Strip(safe_text(Get(row, cWeather, None))) = ""
     THEN << "Weather conditions box is empty (e.g., Raining / Clear / Fog)." >>
     ELSE <<>>)

\* swl_mismatch with "hook_swl >= crane_swl".
swl_mismatch_or_equal(crane_swl, hook_swl) ==
    IF /\ hook_swl.k # "none" /\ crane_swl.k # "none"
       /\ (FloatGT(hook_swl, crane_swl) \/ hook_swl = crane_swl)
    THEN << "Loose gear SWL (" \o FloatStr(hook_swl) \o " t) exceeds crane SWL ("
            \o FloatStr(crane_swl) \o " t) - mismatch." >>
    ELSE <<>>

\* if hook_swl is not None and crane_swl is not None and hook_swl > crane_swl
swl_mismatch(crane_swl, hook_swl) ==
    IF hook_swl.k # "none" /\ crane_swl.k # "none" /\ FloatGT(hook_swl, crane_swl)
    THEN << "Loose gear SWL (" \o FloatStr(hook_swl) \o " t) exceeds crane SWL ("
            \o FloatStr(crane_swl) \o " t) - mismatch." >>
    ELSE <<>>

swl_issues(row) ==
    swl_mismatch(to_float(Get(row, cSWL, None)), to_float(Get(row, cLGSWL, None)))

\* loose_gear_cert_attention left to evidence_prompts alone.
loose_gear_cert_attention_deduplicated(row) == <<>>

loose_gear_cert_attention(row) ==
    IF yn(Get(row, cCert, None)) /\ Strip(safe_text(Get(row, cLGCert, None))) = ""
    THEN << "Loose gear certificate number blank while main cert is current - add accessory cert ref." >>
    ELSE <<>>

prefixed(cs) == [i \in 1..Len(cs) |-> "Notes contradict ticks: " \o cs[i]]

\* status_of with "elif attention:".
status_of_attention_only(issues, attention, due_soon) ==
    IF issues # <<>> THEN "FAIL"
    ELSE IF attention # <<>> THEN "ATTENTION"
    ELSE "PASS"

status_of(issues, attention, due_soon) ==
    IF issues # <<>> THEN "FAIL"
    ELSE IF attention # <<>> \/ due_soon # <<>> THEN "ATTENTION"
    ELSE "PASS"

\* What a call of evaluate_row gives: the returned tuple, or the exception.
Raised(exc) ==
    [exc |-> exc, status |-> "", issues |-> <<>>, attention |-> <<>>, due_soon |-> <<>>]

\* return status, issues, attention, due_soon
returned(issues, attention, due_soon) ==
    [exc |-> "", status |-> status_of(issues, attention, due_soon),
     issues |-> issues, attention |-> attention, due_soon |-> due_soon]

\* assemble with the shift and weather items ahead of the not-answered items.
assemble_context_first(p, a, g, ticks, swl, context, lg_cert, contradictions, prompts) ==
    IF p.raised \/ a.raised \/ g.raised THEN Raised("TypeError")
    ELSE returned(new_list \o p.issues \o a.issues \o ticks.issues \o swl \o g.issues,
                  new_list \o context \o ticks.attention \o lg_cert
                      \o prefixed(contradictions) \o prompts,
                  new_list \o p.due \o a.due \o g.due)

\* The three lists in the order the rules append to them: p, a and g are the
\* outcomes of the proof, annual and loose-gear date rules, ticks that of the
\* mandatory loop.
assemble(p, a, g, ticks, swl, context, lg_cert, contradictions, prompts) ==
    IF p.raised \/ a.raised \/ g.raised THEN Raised("TypeError")
    ELSE returned(new_list \o p.issues \o a.issues \o ticks.issues \o swl \o g.issues,
                  new_list \o ticks.attention \o context \o lg_cert
                      \o prefixed(contradictions) \o prompts,
                  new_list \o p.due \o a.due \o g.due)

evaluate_row(row, today) ==
    assemble(proof_rule(row, today), annual_rule(row, today),
             loose_gear_rule(row, today), mandatory_loop(row),
             swl_issues(row), context_attention(row),
             loose_gear_cert_attention(row),
             contradiction_notes_check(row), evidence_prompts(row))


-----------------------------------------------------------------------------
(* evaluate.                                                               *)

\* missing_columns that stops at the first missing column.
missing_columns_first(cols) == Take(SelectSeq(CHECK_COLUMNS, LAMBDA c : c \notin cols), 1)

\* [c for c in CHECK_COLUMNS if c not in df.columns]
missing_columns(cols) == SelectSeq(CHECK_COLUMNS, LAMBDA c : c \notin cols)

\* The output row evaluate appends for one input row.
summary_row(row, r) ==
    [Crane |-> Get(row, cCrane, None),
     Vessel |-> Get(row, cVessel, None),
     IMO |-> Get(row, cIMO, None),
     Serial |-> Get(row, cSerial, None),
     SWL |-> Get(row, cSWL, None),
     Shift |-> Get(row, cShift, None),
     Weather |-> Get(row, cWeather, None),
     LooseGearSerial |-> Get(row, cLGSerial, None),
     LooseGearSWL |-> Get(row, cLGSWL, None),
     Status |-> r.status,
     Issues |-> Join("; ", r.issues),
     Attention |-> Join("; ", r.attention),
     DueSoon |-> Join("; ", r.due_soon)]

\* Nothing evaluated yet.
NoOutput == [exc |-> "", msg |-> "", rets |-> <<>>, rows |-> <<>>]

\* raise ValueError("Form columns missing: " + ", ".join(missing))
missing_error(missing) ==
    [exc |-> "ValueError", msg |-> "Form columns missing: " \o Join(", ", missing),
     rets |-> <<>>, rows |-> <<>>]

\* for _, r in df.iterrows(): ... rows.append({...}); an exception of
\* evaluate_row leaves evaluate at the first record that raises it.
iterrows(frame, rets) ==
    IF \E i \in 1..Len(frame) : rets[i].exc # ""
    THEN [exc |-> "TypeError",
          msg |-> "unsupported operand type(s) for -: 'datetime.date' and 'NaTType'",
          rets |-> SubSeq(rets, 1, CHOOSE i \in 1..Len(frame) :
                                      /\ rets[i].exc # ""
                                      /\ \A j \in 1..(i - 1) : rets[j].exc = ""),
          rows |-> <<>>]
    ELSE [exc |-> "", msg |-> "", rets |-> rets,
          rows |-> [i \in 1..Len(frame) |-> summary_row(frame[i], rets[i])]]

\* What a call of evaluate gives: the exception it raises (exc, msg) or the
\* output rows, and what each call of evaluate_row it made gave (rets).
evaluate(frame, cols, today) ==
    IF missing_columns(cols) # <<>> THEN missing_error(missing_columns(cols))
    ELSE iterrows(frame, List([i \in 1..Len(frame) |-> evaluate_row(frame[i], today)]))

-----------------------------------------------------------------------------
(* The batches the model evaluates: the blank template, the demo record,   *)
(* CSV imports, and what is changed in them before evaluate is called.     *)

\* How many changes (a cell, a dropped column set, an added record, a later
\* run date) a base batch takes before evaluation.
MaxEdits == 1

RowOf(cells) ==
    [c \in Range(CHECK_COLUMNS) |->
        cells[CHOOSE i \in 1..Len(CHECK_COLUMNS) : CHECK_COLUMNS[i] = c]]

\* A row of the blank template and of the untouched form.
BlankRow(n) ==
    [c \in Range(CHECK_COLUMNS) |-> IF c = cCrane THEN IntCell(n) ELSE Str("")]

\* The demo record.
DemoRow ==
    RowOf(<< IntCell(1), Str("MV Example"), Str("9526722"), Str("NMF DKII"),
             Str("CRN-123"), Str("45"), Str("10-05-2019"), Str("08-05-2022"),
             Str("01-06-2025"), Str("Joe Bloggs (Comp)"), Str("AMSA365-111"),
             Str("Y"), Str("Y"), Str("Y"), Str("Y"), Str("Y"), Str("Y"), Str("Y"),
             Str("Y"), Str("Night"), Str("Raining"), Str("Y"), Str("Y"),
             Str("Controls slightly sloppy at low speed"),
             Str("LG-001"), Str("40"), Str("LGCERT-789"), Str("15-06-2025"),
             Str("hook latch slightly bent") >>)

\* The demo record on a clear day shift with nothing noted, as read_csv
\* types it: numeric columns are ints.
ClearRow ==
    [DemoRow EXCEPT ![cIMO] = IntCell(9526722), ![cSWL] = IntCell(45),
                    ![cLGSWL] = IntCell(40), ![cShift] = Str("Day"),
                    ![cWeather] = Str("Clear"), ![cNotes] = Str("Nil defects"),
                    ![cLGNotes] = Str("Nil")]

\* A crane with defects ticked, as read_csv types it: a blank cell is nan.
DefectRow ==
    [ClearRow EXCEPT ![cBrakes] = Str("N"), ![cLimit] = Str("n"),
                     ![cAccess] = NaN, ![cCertNo] = NaN,
                     ![cNotes] = Str("Brake fade - temporary fix")]

AllColumns == Range(CHECK_COLUMNS)

Without(row, cols) == [c \in (DOMAIN row) \ cols |-> row[c]]

\* The base batches, each of one record.
BaseBatches == { <<BlankRow(1)>>, <<DemoRow>>, <<ClearRow>>, <<DefectRow>> }

\* date.today() on the first run, 2025-07-01, and on later runs of the
\* script (2026-02-28, 2026-05-02).
FirstDay == ToOrdinal(2025, 7, 1)
LaterDays == { ToOrdinal(2026, 2, 28), ToOrdinal(2026, 5, 2) }

TickColumns == {MANDATORY[i].field : i \in 1..Len(MANDATORY)}
DateColumns == {cProof, cAnnual, cLGDate}

\* A date written in format fmt of DATE_FORMATS.
date_text(n, fmt) ==
    IF fmt.first = "d"
    THEN PadLeft(NatStr(FromOrdinal(n).d), 2) \o fmt.sep
         \o PadLeft(NatStr(FromOrdinal(n).m), 2) \o fmt.sep
         \o PadLeft(NatStr(FromOrdinal(n).y), 4)
    ELSE PadLeft(NatStr(FromOrdinal(n).y), 4) \o fmt.sep
         \o PadLeft(NatStr(FromOrdinal(n).m), 2) \o fmt.sep
         \o PadLeft(NatStr(FromOrdinal(n).d), 2)

\* Days before the run date at which a last-event date is entered: the edges
\* of each rule's limit and due-soon threshold, a day in the annual grace
\* period, and a day in the future.
Elapsed(col) ==
    CASE col = cProof -> {5 * 365, 5 * 365 + 1, 5 * 365 - 90, 5 * 365 - 91}
      [] col = cAnnual -> {365 + 31, 365 + 32, 365 - 30, 365 - 31, 366}
      [] col = cLGDate -> {365, 366, 365 - 30, 365 - 31, 0 - 1}

\* The format each date column is written in: ISO for the proof test,
\* slashes for the annual exam, the form's DD-MM-YYYY for loose gear.
FormatOf(col) ==
    CASE col = cProof -> DATE_FORMATS[3]
      [] col = cAnnual -> DATE_FORMATS[2]
      [] col = cLGDate -> DATE_FORMATS[1]

\* What a cell of column col may be changed to.
CellChoices(col, today) ==
    CASE col \in TickColumns ->
            {Str("N")}
            \cup (IF col \in {cCert, cRigging, cBrakes, cVisibility}
                  THEN {Str("Y")} ELSE {})
            \cup (IF col = cBrakes THEN {Str(""), Str(" n "), Str("y"), NaN} ELSE {})
      [] col \in DateColumns ->
            {Str(date_text(today - e, FormatOf(col))) : e \in Elapsed(col)}
            \cup (IF col = cProof THEN {Str(""), NaN} ELSE {})
            \cup (IF col = cAnnual THEN {None} ELSE {})
            \cup (IF col = cLGDate
                  THEN {Str(""), NaN, Str("n/a"), IntCell(today - 100 - SerialOrigin)}
                  ELSE {})
      [] col = cShift -> {Str(""), Str("Day"), Str("Evening"), Str("Night")}
      [] col = cWeather -> {Str(""), Str("Clear"), Str("Raining")}
      [] col = cNotes ->
            {Str(""), Str("Brake fade"), Str("drifts, creeps, slips, fade"),
             Str("no plan"), Str("plan rev B")}
      [] col = cLGNotes -> {Str("wiper worn")}
      [] col = cSWL -> {Str(""), Str("45.5"), Str("abc")}
      [] col = cLGSWL -> {Str(""), Str("45"), Str("50"), NaN}
      [] col = cCertNo -> {Str("")}
      [] col = cExamBy -> {Str("")}
      [] col = cLGCert -> {Str(""), Str(" ")}
      [] OTHER -> {}

ChoiceTable ==
    [t \in {FirstDay} \cup LaterDays |-> [c \in AllColumns |-> CellChoices(c, t)]]

\* The column sets a CSV may come without.
DropChoices == { {cCrane}, {cSWL}, {cBrakes, cNotes}, {cCrane, cVessel, cLGNotes} }

\* A row of the blank template as read_csv gives it back: every blank cell
\* is nan.
CsvBlankRow(n) ==
    [c \in Range(CHECK_COLUMNS) |-> IF c = cCrane THEN IntCell(n) ELSE NaN]

\* The records a further crane may be entered with.
MoreRows == { BlankRow(2), [DefectRow EXCEPT ![cCrane] = IntCell(2)], CsvBlankRow(2) }

\* st.radio("Navigate", ["Vessel Inspection", "Search Vessels"], index=0)
NavigateOptions == << "Vessel Inspection", "Search Vessels" >>

\* if page == "Inspection": page_inspection() else: page_search()
router(selection) ==
    IF selection = "Inspection" THEN "page_inspection" ELSE "page_search"

Init ==
    /\ TODAY = FirstDay
    /\ columns = AllColumns
    /\ df \in BaseBatches
    /\ edits = 0
    /\ pc = "input"
    /\ out = NoOutput
    /\ page = NavigateOptions[1]
    /\ shown = router(NavigateOptions[1])

\* A cell of the batch is given another value (a form input, a CSV cell).
SetCell(i, col, v) ==
    /\ pc = "input"
    /\ edits < MaxEdits
    /\ col \in columns
    /\ v # df[i][col]
    /\ df' = [df EXCEPT ![i][col] = v]
    /\ edits' = edits + 1
    /\ UNCHANGED <<TODAY, columns, pc, out, page, shown>>

\* The batch comes without the columns cols (a CSV that lacks them).
DropColumns(cols) ==
    /\ pc = "input"
    /\ edits < MaxEdits
    /\ cols \cap columns # {}
    /\ columns' = columns \ cols
    /\ df' = [i \in 1..Len(df) |-> Without(df[i], cols)]
    /\ edits' = edits + 1
    /\ UNCHANGED <<TODAY, pc, out, page, shown>>

\* A further record is entered below the others.
AddRow(row) ==
    /\ pc = "input"
    /\ edits < MaxEdits
    /\ df' = Append(df, Without(row, AllColumns \ columns))
    /\ edits' = edits + 1
    /\ UNCHANGED <<TODAY, columns, pc, out, page, shown>>

\* The script is run on a later day: TODAY = date.today().
DayPasses(t) ==
    /\ pc = "input"
    /\ edits < MaxEdits
    /\ t > TODAY
    /\ TODAY' = t
    /\ edits' = edits + 1
    /\ UNCHANGED <<columns, df, pc, out, page, shown>>

\* evaluate(df) is called: on the batch as entered, and once more on the
\* batch already evaluated.
Evaluate ==
    /\ pc \in {"input", "evaluated"}
    /\ out' = evaluate(df, columns, TODAY)
    /\ pc' = IF pc = "input" THEN "evaluated" ELSE "evaluated again"
    /\ UNCHANGED <<TODAY, columns, df, edits, page, shown>>

\* The other option of the navigation radio is picked: the script runs
\* again and the router calls a page.
Navigate(selection) ==
    /\ selection # page
    /\ page' = selection
    /\ shown' = router(selection)
    /\ UNCHANGED <<TODAY, columns, df, edits, pc, out>>

Next ==
    \/ \E i \in 1..Len(df), col \in AllColumns :
          \E v \in ChoiceTable[TODAY][col] : SetCell(i, col, v)
    \/ \E cols \in DropChoices : DropColumns(cols)
    \/ \E row \in MoreRows : AddRow(row)
    \/ \E t \in LaterDays : DayPasses(t)
    \/ Evaluate
    \/ \E selection \in Range(NavigateOptions) : Navigate(selection)

Spec == Init /\ [][Next]_vars

-----------------------------------------------------------------------------
(* Properties of the evaluation.  A record is called when evaluate_row was *)
(* called on it, and returned when that call returned a result.            *)

Called == DOMAIN out.rets
Returned == {i \in Called : out.rets[i].exc = ""}

Has(xs, x) == \E k \in DOMAIN xs : xs[k] = x
Count(xs, x) == Cardinality({k \in DOMAIN xs : xs[k] = x})
StartsWith(s, p) == Len(s) >= Len(p) /\ SubSeq(s, 1, Len(p)) = p
Starting(xs, p) == {k \in DOMAIN xs : StartsWith(xs[k], p)}
Empty(r) == r.issues = <<>> /\ r.attention = <<>> /\ r.due_soon = <<>>
Blank(v) == Strip(safe_text(v)) = ""

\* The three interval rules as the claims state them: limit, interval and
\* due-soon threshold in days.
DateRules ==
    << [col |-> cProof, limit |-> 1825, interval |-> 1825, soon |-> 90,
        issue |-> "Overdue/missing 5-year proof test (MO32 Sch.3 2(2)(a)).",
        label |-> "5-year proof test"],
       [col |-> cAnnual, limit |-> 396, interval |-> 365, soon |-> 30,
        issue |-> "Overdue/missing annual thorough exam (MO32 Sch.3 2(2)(b), 2(5)).",
        label |-> "Annual thorough exam"],
       [col |-> cLGDate, limit |-> 365, interval |-> 365, soon |-> 30,
        issue |-> "Loose gear last inspection/proof >12 months or missing - not compliant.",
        label |-> "Loose gear inspection"] >>

\* The dates of record i as parse_date reads them, one for each rule.
Dates(i) == List([k \in DOMAIN DateRules |-> parse_date(df[i][DateRules[k].col])])

\* Days since date d, and days left to it under rule k.
ElapsedDays(d) == TODAY - d.ord
DaysLeft(d, k) == (d.ord + DateRules[k].interval) - TODAY

\* Date d is within the limit of rule k and not due soon.
InDate(d, k) ==
    /\ d.k = "date"
    /\ ElapsedDays(d) <= DateRules[k].limit
    /\ DaysLeft(d, k) > DateRules[k].soon

\* The mandatory fields of record i ticked N.
TickedN(i) == {k \in DOMAIN MANDATORY : tick_of(df[i], MANDATORY[k].field) = "N"}
AllTickedY(i) == \A k \in DOMAIN MANDATORY : tick_of(df[i], MANDATORY[k].field) = "Y"
NotOk(e) == Replace(e.field, " (Y/N)", "") \o ": NOT OK (MO32 " \o e.ref \o ")."

\* Hook SWL exceeds crane SWL in record i, both being numbers.
HookExceeds(i) ==
    /\ to_float(df[i][cSWL]).k # "none"
    /\ to_float(df[i][cLGSWL]).k # "none"
    /\ FloatGT(to_float(df[i][cLGSWL]), to_float(df[i][cSWL]))

\* C1: in every result evaluate_row returns, the status is FAIL exactly when
\* the issue list is non-empty, ATTENTION exactly when the issue list is empty
\* and the attention or the due-soon list is not, PASS exactly when all three
\* lists are empty, and it is never anything else.
C1_StatusFromLists ==
    \A i \in Returned :
        LET r == out.rets[i]
        IN /\ r.status \in {"PASS", "ATTENTION", "FAIL"}
           /\ (r.status = "FAIL") <=> (r.issues # <<>>)
           /\ (r.status = "ATTENTION")
                <=> (r.issues = <<>> /\ (r.attention # <<>> \/ r.due_soon # <<>>))
           /\ (r.status = "PASS") <=> Empty(r)

\* A result that is ATTENTION for its due-soon list alone.
C1_DueSoonAlone ==
    \E i \in Returned :
        /\ out.rets[i].status = "ATTENTION"
        /\ out.rets[i].issues = <<>>
        /\ out.rets[i].attention = <<>>
        /\ out.rets[i].due_soon # <<>>

\* What C2 asks of record i: no N tick and no unanswered tick, both test
\* dates in date, no contradiction, hook SWL not above crane SWL.
C2_Asked(i) ==
    /\ AllTickedY(i)
    /\ InDate(Dates(i)[1], 1)
    /\ InDate(Dates(i)[2], 2)
    /\ ~HookExceeds(i)
    /\ contradiction_notes_check(df[i]) = <<>>

\* C2 as claimed: every record with no N or unanswered tick, both test dates
\* in date and not due soon, no contradiction and consistent SWL gets PASS
\* with three empty lists, whatever its other cells hold.
C2_AsClaimed ==
    \A i \in Called :
        C2_Asked(i) => i \in Returned /\ out.rets[i].status = "PASS" /\ Empty(out.rets[i])

\* What the rules ask beyond that: the loose-gear date in date too, shift and
\* weather filled in, certificate number, examiner and loose-gear certificate
\* number filled in, and no "plan" without "rev" in the notes.
C2_Complete(i) ==
    /\ ~Blank(df[i][cShift])
    /\ ~Blank(df[i][cWeather])
    /\ ~Blank(df[i][cCertNo])
    /\ ~Blank(df[i][cExamBy])
    /\ ~Blank(df[i][cLGCert])
    /\ InDate(Dates(i)[3], 3)
    /\ ~(/\ Contains(Lower(safe_text(df[i][cNotes])), "plan")
         /\ ~Contains(Lower(safe_text(df[i][cNotes])), "rev"))
    /\ C2_Asked(i)

\* C2, amended: a record with every mandatory field ticked Y, all three
\* dates within their limit and not due soon, no contradiction, hook SWL not
\* above crane SWL, shift and weather filled in, certificate number, examiner
\* and loose-gear certificate number filled in, and no "plan" without "rev"
\* in its notes gets PASS with three empty lists.
C2_PassWhenComplete ==
    \A i \in Called :
        C2_Complete(i) => i \in Returned /\ out.rets[i].status = "PASS" /\ Empty(out.rets[i])

\* A complete record that got PASS.
C2_CompleteRecordPasses ==
    \E i \in Returned : C2_Complete(i) /\ out.rets[i].status = "PASS"

\* C3 as claimed: for every record with a mandatory field ticked N,
\* evaluate_row returns FAIL and the issue list holds exactly one NOT OK entry,
\* with the field's reference, for each field ticked N and none for the others.
C3_AsClaimed ==
    \A i \in Called :
        TickedN(i) # {} =>
            /\ i \in Returned
            /\ out.rets[i].status = "FAIL"
            /\ \A k \in DOMAIN MANDATORY :
                   Count(out.rets[i].issues, NotOk(MANDATORY[k]))
                       = IF k \in TickedN(i) THEN 1 ELSE 0

\* What holds of C3: the same, of the results evaluate_row returns.
C3_WhenReturned ==
    \A i \in Returned :
        /\ TickedN(i) # {} => out.rets[i].status = "FAIL"
        /\ \A k \in DOMAIN MANDATORY :
               Count(out.rets[i].issues, NotOk(MANDATORY[k]))
                   = IF k \in TickedN(i) THEN 1 ELSE 0

\* A record with a field ticked N on which evaluate_row raised.
C3_TickedNRaises ==
    \E i \in Called : TickedN(i) # {} /\ out.rets[i].exc = "TypeError"

\* C4: in every result, each interval rule's overdue issue is present exactly
\* when its date is absent or more than the limit (1825, 396, 365 days) before
\* TODAY, so a date at the limit raises none; and with the issue the status is
\* FAIL.
C4_OverdueRule ==
    \A i \in Returned :
        LET d == Dates(i)
        IN \A k \in DOMAIN DateRules :
               /\ Has(out.rets[i].issues, DateRules[k].issue)
                    <=> (d[k].k # "date" \/ ElapsedDays(d[k]) > DateRules[k].limit)
               /\ Has(out.rets[i].issues, DateRules[k].issue)
                    => out.rets[i].status = "FAIL"

\* An annual exam exactly 396 days back, with no overdue issue for it.
C4_AtTheLimit ==
    \E i \in Returned :
        /\ Dates(i)[2].k = "date"
        /\ ElapsedDays(Dates(i)[2]) = 396
        /\ ~Has(out.rets[i].issues, DateRules[2].issue)

\* A date cell C5 calls unparseable: blank, None, NaN, or text that is no
\* date in an accepted format and no number.
Unparseable(v) ==
    \/ v.t \in {"none", "float"}
    \/ /\ v.t = "str"
       /\ \A f \in DOMAIN DATE_FORMATS : strptime(Strip(v.s), DATE_FORMATS[f]).k # "date"
       /\ PyFloat(Strip(v.s)).k = "none"

\* C5 as claimed: for each of the three date fields, when the cell is
\* unparseable parse_date gives None, evaluate_row returns, the rule's overdue
\* issue is in the issue list and the status is FAIL.
C5_AsClaimed ==
    \A i \in Called : \A k \in DOMAIN DateRules :
        Unparseable(df[i][DateRules[k].col]) =>
            /\ parse_date(df[i][DateRules[k].col]) = NoDate
            /\ i \in Returned
            /\ Has(out.rets[i].issues, DateRules[k].issue)
            /\ out.rets[i].status = "FAIL"

\* A record whose date cell is NaN, on which evaluate_row raised.
C5_NaNDateRaises ==
    \E i \in Called : \E k \in DOMAIN DateRules :
        /\ df[i][DateRules[k].col] = NaN
        /\ parse_date(NaN) = NaT
        /\ out.rets[i].exc = "TypeError"

\* C6: in every result, a rule that is not overdue has its due-soon notice,
\* once and with the days left in it, exactly when the days left are at most
\* the threshold (90, 30, 30); an overdue rule has no notice.
C6_DueSoonRule ==
    \A i \in Returned :
        LET d == Dates(i)
        IN \A k \in DOMAIN DateRules :
               IF /\ d[k].k = "date"
                  /\ ElapsedDays(d[k]) <= DateRules[k].limit
                  /\ DaysLeft(d[k], k) <= DateRules[k].soon
               THEN /\ Cardinality(Starting(out.rets[i].due_soon,
                                            DateRules[k].label \o " due in ")) = 1
                    /\ Has(out.rets[i].due_soon,
                           DateRules[k].label \o " due in "
                           \o IntStr(DaysLeft(d[k], k)) \o " days.")
               ELSE Starting(out.rets[i].due_soon, DateRules[k].label \o " due in ") = {}

\* An annual exam with exactly 30 days left and its notice.
C6_ThirtyDaysLeft ==
    \E i \in Returned :
        /\ Dates(i)[2].k = "date"
        /\ DaysLeft(Dates(i)[2], 2) = 30
        /\ Has(out.rets[i].due_soon, "Annual thorough exam due in 30 days.")

\* C7: once evaluate was called, if a column of CHECK_COLUMNS is absent it
\* raised the one error whose message names every missing column in
\* CHECK_COLUMNS order, having evaluated no record; if none is absent it raised
\* no such error, blank cells or not.
C7_SchemaCheck ==
    pc # "input" =>
        IF AllColumns \ columns # {}
        THEN /\ out.exc = "ValueError"
             /\ out.msg = "Form columns missing: "
                          \o Join(", ", SelectSeq(CHECK_COLUMNS, LAMBDA c : c \notin columns))
             /\ out.rets = <<>>
             /\ out.rows = <<>>
        ELSE out.exc # "ValueError"

\* A batch without two columns, and the error naming both.
C7_TwoMissing ==
    /\ pc # "input"
    /\ columns = AllColumns \ {cBrakes, cNotes}
    /\ out.exc = "ValueError"
    /\ out.msg = "Form columns missing: Brakes operational? (Y/N), Notes / Defects"

\* C8: in every result, the SWL mismatch issue, naming hook and crane SWL, is
\* in the issue list exactly when both parse to numbers and hook SWL is
\* strictly greater; with it the status is FAIL, and the rule adds nothing to
\* the attention list.
C8_SwlMismatch ==
    \A i \in Returned :
        /\ IF HookExceeds(i)
           THEN /\ Count(out.rets[i].issues,
                         "Loose gear SWL (" \o FloatStr(to_float(df[i][cLGSWL]))
                         \o " t) exceeds crane SWL (" \o FloatStr(to_float(df[i][cSWL]))
                         \o " t) - mismatch.") = 1
                /\ Cardinality(Starting(out.rets[i].issues, "Loose gear SWL (")) = 1
                /\ out.rets[i].status = "FAIL"
           ELSE Starting(out.rets[i].issues, "Loose gear SWL (") = {}
        /\ Starting(out.rets[i].attention, "Loose gear SWL (") = {}

\* Crane SWL 45 and hook SWL 50: the issue and FAIL.
C8_FiftyOverFortyFive ==
    \E i \in Returned :
        /\ Has(out.rets[i].issues,
               "Loose gear SWL (50.0 t) exceeds crane SWL (45.0 t) - mismatch.")
        /\ out.rets[i].status = "FAIL"

\* C9: in every result and for every field with a keyword list, the attention
\* list holds one contradiction entry for the field, naming the first three
\* matched keywords in list order, when the field is ticked Y and a keyword of
\* it occurs in the blob, and no such entry otherwise; a field ticked N
\* without a workaround phrase in the blob, or unanswered, has no contradiction
\* entry at all.
C9_Contradictions ==
    \A i \in Returned :
        LET blob == notes_blob(df[i])
        IN \A k \in DOMAIN RISK_KEYWORDS :
            LET e == RISK_KEYWORDS[k]
                tick == tick_of(df[i], e.field)
                hits == SelectSeq(e.words, LAMBDA w : Contains(blob, w))
                head == "Notes contradict ticks: " \o e.field \o ": "
            IN /\ IF tick = "Y" /\ hits # <<>>
                  THEN /\ Cardinality(Starting(out.rets[i].attention,
                                               head \o "Y but notes mention ")) = 1
                       /\ Has(out.rets[i].attention,
                              head \o "Y but notes mention "
                              \o Join(", ", Take(hits, 3)))
                  ELSE Starting(out.rets[i].attention,
                                head \o "Y but notes mention ") = {}
               /\ (\/ tick \notin {"Y", "N"}
                   \/ /\ tick = "N"
                      /\ \A x \in Range(WORKAROUND) : ~Contains(blob, x))
                    => Starting(out.rets[i].attention, head) = {}

\* Brakes ticked Y with "brake fade" in the notes, and the entry naming both.
C9_BrakeFade ==
    \E i \in Returned :
        /\ tick_of(df[i], cBrakes) = "Y"
        /\ Contains(notes_blob(df[i]), "brake fade")
        /\ Has(out.rets[i].attention,
               "Notes contradict ticks: Brakes operational? (Y/N): "
               \o "Y but notes mention fade, brake fade")

C11_AsClaimed ==
    (pc # "input" /\ columns = AllColumns) =>
        /\ Len(out.rows) = Len(df)
        /\ \A i \in 1..Len(df) :
               out.rows[i] = summary_row(df[i], evaluate_row(df[i], TODAY))

\* A batch of two records whose first record evaluates alone, and for which
\* evaluate gave no output row at all because the second record raised.
C11_OtherRowRaises ==
    /\ pc # "input"
    /\ columns = AllColumns
    /\ Len(df) = 2
    /\ evaluate_row(df[1], TODAY).exc = ""
    /\ evaluate_row(df[2], TODAY).exc = "TypeError"
    /\ out.exc = "TypeError"
    /\ out.rows = <<>>

\* C12 as claimed: once evaluate was called, the only exception it raised is
\* the schema error, and on a batch with every column evaluate_row returned a
\* status and three lists for every record.
C12_AsClaimed ==
    pc # "input" =>
        /\ out.exc \in {"", "ValueError"}
        /\ columns = AllColumns =>
               /\ out.exc = ""
               /\ Len(out.rets) = Len(df)
               /\ \A i \in 1..Len(df) :
                      /\ out.rets[i].exc = ""
                      /\ out.rets[i].status \in {"PASS", "ATTENTION", "FAIL"}

\* A batch with every column on which evaluate raised TypeError.
C12_TypeErrorSurfaced ==
    /\ pc # "input"
    /\ columns = AllColumns
    /\ out.exc = "TypeError"
    /\ out.msg = "unsupported operand type(s) for -: 'datetime.date' and 'NaTType'"
    /\ out.rows = <<>>
    /\ Len(df) = 1

\* The mandatory fields of record i that are neither ticked Y nor ticked N.
Unanswered(i) ==
    {k \in DOMAIN MANDATORY : tick_of(df[i], MANDATORY[k].field) \notin {"Y", "N"}}
NotAnswered(e) == e.field \o " not answered (tick Y or N)."


\* The NOT OK issues of the fields ks, and their not-answered items, in the
\* order of the ten-entry table.
NotOkInOrder(ks) ==
    Flatten(List([k \in DOMAIN MANDATORY |->
                     IF k \in ks THEN << NotOk(MANDATORY[k]) >> ELSE <<>>]))
NotAnsweredInOrder(ks) ==
    Flatten(List([k \in DOMAIN MANDATORY |->
                     IF k \in ks THEN << NotAnswered(MANDATORY[k]) >> ELSE <<>>]))

\* C13: in every result, the NOT OK issues are those of the fields ticked N
\* and the not-answered attention items are those of the fields that are
\* neither Y nor N, one each and in table order; so an unanswered field has
\* its one attention item and no issue, and a field ticked Y has neither.
C13_TriState ==
    \A i \in Returned :
        /\ SelectSeq(out.rets[i].issues,
                     LAMBDA x : \E k \in DOMAIN MANDATORY : x = NotOk(MANDATORY[k]))
             = NotOkInOrder(TickedN(i))
        /\ SelectSeq(out.rets[i].attention,
                     LAMBDA x : \E k \in DOMAIN MANDATORY : x = NotAnswered(MANDATORY[k]))
             = NotAnsweredInOrder(Unanswered(i))
        /\ \A k \in Unanswered(i) :
               /\ Count(out.rets[i].attention, NotAnswered(MANDATORY[k])) = 1
               /\ ~Has(out.rets[i].issues, NotOk(MANDATORY[k]))

\* A record whose access tick is nan and whose limit-switch and brake ticks
\* are N: the not-answered item for the first, no issue for it, and the two
\* NOT OK issues in table order.
C13_NanTickUnanswered ==
    \E i \in Returned :
        /\ df[i][cAccess] = NaN
        /\ Has(out.rets[i].attention,
               "Access/escape to cabin compliant? (Y/N) not answered (tick Y or N).")
        /\ ~Has(out.rets[i].issues, "Access/escape to cabin compliant?: NOT OK (MO32 Sch.6 access).")
        /\ NotOkInOrder(TickedN(i))
             = << "Limit switches operational?: NOT OK (MO32 Sch.3 cl.4(3)).",
                  "Brakes operational?: NOT OK (MO32 Sch.6 Div.3)." >>

LowVisibility ==
    "Notes contradict ticks: Visibility = Y but conditions indicate low visibility (night/adverse weather)."

\* C14: in every result, the low-visibility item is in the attention list,
\* once, exactly when visibility is ticked Y and the shift is Night (in any
\* letter case) or a word of WEATHER_BAD occurs in the blob of notes,
\* loose-gear notes and weather text.
C14_VisibilityRule ==
    \A i \in Returned :
        Count(out.rets[i].attention, LowVisibility)
          = IF /\ tick_of(df[i], cVisibility) = "Y"
               /\ \/ Lower(safe_text(df[i][cShift])) = "night"
                  \/ \E w \in Range(WEATHER_BAD) : Contains(notes_blob(df[i]), w)
            THEN 1 ELSE 0

\* Visibility ticked Y on a night shift with clear weather and nothing in
\* the notes, and the item.
C14_ClearNight ==
    \E i \in Returned :
        /\ tick_of(df[i], cVisibility) = "Y"
        /\ df[i][cShift] = Str("Night")
        /\ \A w \in Range(WEATHER_BAD) : ~Contains(notes_blob(df[i]), w)
        /\ Has(out.rets[i].attention, LowVisibility)

\* C15: in every result and for every field with a keyword list, the
\* attention list holds the field's workaround entry, once, exactly when the
\* field is ticked N and a workaround phrase occurs in the blob; and it never
\* holds both that entry and the field's Y-contradiction entry.
C15_WorkaroundRule ==
    \A i \in Returned :
        LET blob == notes_blob(df[i])
        IN \A k \in DOMAIN RISK_KEYWORDS :
            LET head == "Notes contradict ticks: " \o RISK_KEYWORDS[k].field \o ": "
                n == Count(out.rets[i].attention,
                           head \o "N but notes imply workaround/operation")
            IN /\ n = IF /\ tick_of(df[i], RISK_KEYWORDS[k].field) = "N"
                         /\ \E x \in {"ok now", "temporary fix", "workaround", "still usable"} :
                                Contains(blob, x)
                      THEN 1 ELSE 0
               /\ n > 0 => Starting(out.rets[i].attention, head \o "Y but notes mention ") = {}

\* Brakes ticked N with "temporary fix" in the notes: the workaround entry
\* for the brakes, and none for the certificate, which is ticked Y.
C15_TemporaryFix ==
    \E i \in Returned :
        /\ tick_of(df[i], cBrakes) = "N"
        /\ tick_of(df[i], cCert) = "Y"
        /\ Contains(notes_blob(df[i]), "temporary fix")
        /\ Has(out.rets[i].attention,
               "Notes contradict ticks: Brakes operational? (Y/N): N but notes imply workaround/operation")
        /\ ~Has(out.rets[i].attention,
               "Notes contradict ticks: Certificate Current? (Y/N): N but notes imply workaround/operation")

\* C16: in every result, when the certificate is ticked Y and the loose-gear
\* certificate number is blank the attention list holds both entries about
\* it, the one of evaluate_row and the one of evidence_prompts, and otherwise
\* neither.
C16_LooseGearCertTwice ==
    \A i \in Returned :
        LET n == IF yn(df[i][cCert]) /\ Blank(df[i][cLGCert]) THEN 1 ELSE 0
        IN /\ Count(out.rets[i].attention,
                    "Loose gear certificate number blank while main cert is current - add accessory cert ref.") = n
           /\ Count(out.rets[i].attention,
                    "Main certificate current but loose gear cert # blank - add accessory cert reference.") = n

\* A certificate ticked Y with a blank loose-gear certificate number, and the
\* two entries, the one of evaluate_row first.
C16_BothEntries ==
    \E i \in Returned :
        /\ yn(df[i][cCert])
        /\ df[i][cLGCert] = Str(" ")
        /\ \E a, b \in DOMAIN out.rets[i].attention :
               /\ a < b
               /\ out.rets[i].attention[a]
                    = "Loose gear certificate number blank while main cert is current - add accessory cert ref."
               /\ out.rets[i].attention[b]
                    = "Main certificate current but loose gear cert # blank - add accessory cert reference."

CertificatePrompt == "Certificate marked current but certificate number is blank - add ID/photo."
RegisterPrompt ==
    "Register marked onboard - add last entry details/competent or responsible person."
RiggingPrompt == "Rigging plan onboard - add drawing ID/revision/date in notes."

\* C17: in every result, the certificate prompt is in the attention list
\* exactly when the certificate is ticked Y and the certificate number is
\* blank, the register prompt exactly when the register is ticked Y and the
\* examiner is blank, the rigging-plan prompt exactly when the rigging plan
\* is ticked Y and the notes mention "plan" and not "rev"; and no prompt is
\* in the issue list.
C17_EvidencePrompts ==
    \A i \in Returned :
        LET notes == Lower(safe_text(df[i][cNotes]))
        IN /\ Count(out.rets[i].attention, CertificatePrompt)
                = IF tick_of(df[i], cCert) = "Y" /\ Blank(df[i][cCertNo]) THEN 1 ELSE 0
           /\ Count(out.rets[i].attention, RegisterPrompt)
                = IF tick_of(df[i], cRegister) = "Y" /\ Blank(df[i][cExamBy]) THEN 1 ELSE 0
           /\ Count(out.rets[i].attention, RiggingPrompt)
                = IF /\ tick_of(df[i], cRigging) = "Y"
                     /\ Contains(notes, "plan")
                     /\ ~Contains(notes, "rev")
                  THEN 1 ELSE 0
           /\ \A x \in Range(evidence_prompts(df[i])) : ~Has(out.rets[i].issues, x)

\* A register ticked Y with a blank examiner, and the register prompt in the
\* attention list.
C17_RegisterWithoutExaminer ==
    \E i \in Returned :
        /\ tick_of(df[i], cRegister) = "Y"
        /\ df[i][cExamBy] = Str("")
        /\ Has(out.rets[i].attention, RegisterPrompt)
        /\ out.rets[i].issues = <<>>

ShiftNotSelected == "Shift/Lighting not selected (Day/Evening/Night)."
WeatherEmpty == "Weather conditions box is empty (e.g., Raining / Clear / Fog)."

\* C19: in every result, the shift item is in the attention list, once,
\* exactly when the shift is blank, and the weather item exactly when the
\* weather text is blank; and no record with a blank shift or a blank
\* weather text gets PASS.
C19_ContextPresence ==
    /\ \A i \in Returned :
           /\ Count(out.rets[i].attention, ShiftNotSelected)
                = IF Blank(df[i][cShift]) THEN 1 ELSE 0
           /\ Count(out.rets[i].attention, WeatherEmpty)
                = IF Blank(df[i][cWeather]) THEN 1 ELSE 0
    /\ \A i \in Called :
           (Blank(df[i][cShift]) \/ Blank(df[i][cWeather]))
               => out.rets[i].status # "PASS"

\* A record that is ATTENTION for its blank weather text alone.
C19_BlankWeatherAlone ==
    \E i \in Returned :
        /\ ~Blank(df[i][cShift])
        /\ df[i][cWeather] = Str("")
        /\ out.rets[i].attention = << WeatherEmpty >>
        /\ out.rets[i].issues = <<>>
        /\ out.rets[i].due_soon = <<>>
        /\ out.rets[i].status = "ATTENTION"

\* The day counts a due-soon notice of each rule may carry.
NoticeRange == << 0..90, (0 - 31)..30, 0..30 >>

\* C20: in every result, each due-soon notice of a rule carries a day count
\* in the rule's range (0..90 for the proof test, -31..30 for the annual
\* exam, 0..30 for loose gear); an annual exam 366 to 396 days back has no
\* overdue issue and has its notice, with a negative day count; and a date
\* after TODAY has neither an overdue issue nor a notice.
C20_NoticeRange ==
    \A i \in Returned :
        LET d == Dates(i)
        IN /\ \A k \in DOMAIN DateRules :
                  /\ \A j \in Starting(out.rets[i].due_soon, DateRules[k].label \o " due in ") :
                         \E n \in NoticeRange[k] :
                             out.rets[i].due_soon[j]
                               = DateRules[k].label \o " due in " \o IntStr(n) \o " days."
                  /\ (d[k].k = "date" /\ ElapsedDays(d[k]) < 0)
                        => /\ ~Has(out.rets[i].issues, DateRules[k].issue)
                           /\ Starting(out.rets[i].due_soon,
                                       DateRules[k].label \o " due in ") = {}
           /\ (d[2].k = "date" /\ ElapsedDays(d[2]) \in 366..396)
                 => /\ ~Has(out.rets[i].issues, DateRules[2].issue)
                    /\ 365 - ElapsedDays(d[2]) < 0
                    /\ Has(out.rets[i].due_soon,
                           "Annual thorough exam due in "
                           \o IntStr(365 - ElapsedDays(d[2])) \o " days.")

\* An annual exam 396 days back: no overdue issue, and the notice "due in
\* -31 days".
C20_EndOfGrace ==
    \E i \in Returned :
        /\ Dates(i)[2].k = "date"
        /\ ElapsedDays(Dates(i)[2]) = 396
        /\ Has(out.rets[i].due_soon, "Annual thorough exam due in -31 days.")
        /\ ~Has(out.rets[i].issues, DateRules[2].issue)

\* C18 as claimed: in every run, with "Vessel Inspection" selected the router
\* called page_inspection and with "Search Vessels" selected it called
\* page_search.
C18_AsClaimed ==
    /\ page = "Vessel Inspection" => shown = "page_inspection"
    /\ page = "Search Vessels" => shown = "page_search"

\* "Vessel Inspection" is selected and the router called page_search.
C18_InspectionShowsSearch ==
    /\ page = "Vessel Inspection"
    /\ shown = "page_search"

\* Record i has its crane number set and an empty string in every other cell.
BlankTemplate(i) ==
    /\ df[i][cCrane].t = "int"
    /\ \A c \in AllColumns \ {cCrane} : df[i][c] = Str("")

\* C21: a record with only the crane number set and every other cell an
\* empty string gets FAIL with exactly the three missing-date issues (proof
\* test, annual exam, loose gear, in that order), exactly twelve attention
\* items (the ten not-answered items in table order, then shift, then
\* weather) and an empty due-soon list.
C21_BlankTemplate ==
    \A i \in Called :
        BlankTemplate(i) =>
            /\ i \in Returned
            /\ out.rets[i].status = "FAIL"
            /\ out.rets[i].issues
                 = << "Overdue/missing 5-year proof test (MO32 Sch.3 2(2)(a)).",
                      "Overdue/missing annual thorough exam (MO32 Sch.3 2(2)(b), 2(5)).",
                      "Loose gear last inspection/proof >12 months or missing - not compliant." >>
            /\ Len(out.rets[i].attention) = 12
            /\ out.rets[i].attention
                 = NotAnsweredInOrder(DOMAIN MANDATORY)
                   \o << "Shift/Lighting not selected (Day/Evening/Night).",
                         "Weather conditions box is empty (e.g., Raining / Clear / Fog)." >>
            /\ out.rets[i].attention[1]
                 = "Certificate Current? (Y/N) not answered (tick Y or N)."
            /\ out.rets[i].attention[10]
                 = "Access/escape to cabin compliant? (Y/N) not answered (tick Y or N)."
            /\ out.rets[i].due_soon = <<>>

\* The blank record of crane 2, entered below another record, and its FAIL
\* with three issues and twelve attention items.
C21_BlankSecondCrane ==
    \E i \in Returned :
        /\ BlankTemplate(i)
        /\ df[i][cCrane] = IntCell(2)
        /\ out.rets[i].status = "FAIL"
        /\ Len(out.rets[i].issues) = 3
        /\ Len(out.rets[i].attention) = 12

=============================================================================
